---- MODULE Spec2Model ----
(***************************************************************************)
(* A model of server.js, the solar-analysis proxy: the HTTP handlers for   *)
(* geocoding, the two quality-tiered Solar API endpoints (building         *)
(* insights and imagery), the image proxy, the GeoTIFF processor, the PNG  *)
(* converter, the health check and the frontend.                           *)
(*                                                                         *)
(* Text is a sequence of pieces (a piece is a literal fragment of a        *)
(* template string, or one character of data received from outside); a     *)
(* template string is the concatenation of its pieces, and                 *)
(* String.prototype.includes(x) asks for the piece x.  JavaScript values   *)
(* are records tagged with their type, so that truthiness (!v) is computed *)
(* as JavaScript computes it.                                              *)
(*                                                                         *)
(* A handler runs from one await to the next without interruption: every  *)
(* await of the code (fetch(url), the read of the body, each call of sharp) *)
(* is a position of the request, and the settling of the awaited promise   *)
(* is a step of the environment that resumes the handler.  The handlers    *)
(* share no state: a request arrives on a free connection whatever the     *)
(* other connections are doing, and the steps of the requests interleave.  *)
(***************************************************************************)
EXTENDS Integers, Sequences, FiniteSets, TLC

\* ------------------------------------------------------------ bounds
\* Number of client connections (request slots) of the model.
NumClients == 2
\* Largest number of pixels of a raster of one channel.
MaxPixels == 5
\* Largest number of pixels of a raster of more than one channel.
MaxColourPixels == 2

Clients == 1..NumClients

\* ------------------------------------------------------------ JavaScript values
Undefined == [t |-> "undefined"]
Null == [t |-> "null"]
Num(n) == [t |-> "number", v |-> n]
Str(s) == [t |-> "string", v |-> s]

\* !v of JavaScript: undefined, null, 0, "" and false are falsy.
Falsy(v) ==
    \/ v.t = "undefined"
    \/ v.t = "null"
    \/ (v.t = "number" /\ v.v = 0)
    \/ (v.t = "string" /\ v.v = <<>>)
    \/ (v.t = "boolean" /\ ~v.v)

\* `${v}` of a template string: the pieces a value contributes.
Text(v) ==
    CASE v.t = "undefined" -> <<"undefined">>
      [] v.t = "null" -> <<"null">>
      [] v.t = "number" -> <<ToString(v.v)>>
      [] v.t = "boolean" -> <<IF v.v THEN "true" ELSE "false">>
      [] v.t = "string" -> v.v

\* text.includes(piece)
Includes(text, piece) == \E i \in DOMAIN text : text[i] = piece

\* text.substring(0, n)
Substring0(text, n) == SubSeq(text, 1, IF n < Len(text) THEN n ELSE Len(text))

\* Mutant of qualityLevels: the tiers tried from the lowest up.
qualityLevelsAscending == <<"BASE", "MEDIUM", "HIGH">>

\* const qualityLevels = ['HIGH', 'MEDIUM', 'BASE'];
qualityLevels == <<"HIGH", "MEDIUM", "BASE">>

\* response.ok of node-fetch: the status is in 200..299.
Ok(status) == status >= 200 /\ status < 300

\* ------------------------------------------------------------ state
VARIABLES
    reqs,   \* reqs[c]: the client request being served on connection c
    env     \* process.env, as the server read it when it started

vars == <<reqs, env>>

\* const GOOGLE_API_KEY = process.env.GOOGLE_API_KEY;
GOOGLE_API_KEY == env.GOOGLE_API_KEY

\* const URL_SIGNING_SECRET = process.env.URL_SIGNING_SECRET;
URL_SIGNING_SECRET == env.URL_SIGNING_SECRET

\* The environments a server is started in: each variable set, or not set.
Environments ==
    [GOOGLE_API_KEY : {Undefined, Str(<<"<GOOGLE_API_KEY>">>)},
     URL_SIGNING_SECRET : {Undefined, Str(<<"<URL_SIGNING_SECRET>">>)}]

\* What the handler knows of the upstream response it reads the body of.
ResponseHead(status, contentType) == [status |-> status, contentType |-> contentType]
NoHead == ResponseHead(0, Undefined)

\* One header set on res.
Header(name, value) == [name |-> name, value |-> value]

NoInput == [address |-> Undefined, lat |-> Undefined, lng |-> Undefined,
            url |-> Undefined, layer |-> Undefined, path |-> Undefined]

\* A connection with no request on it.
Idle == [ep |-> "none", input |-> NoInput, pc |-> "idle", tier |-> 0,
         sent |-> <<>>, head |-> NoHead, log |-> <<>>, alpha |-> FALSE,
         headers |-> <<>>, resp |-> <<>>]

\* res.status(s).json(body) / res.json(body) / res.send(bytes): one response.
Response(status, body) == [status |-> status, body |-> body]

\* The handler of request r sends a response and returns.
Respond(r, status, body) ==
    [r EXCEPT !.pc = "done", !.resp = Append(@, Response(status, body))]

\* The handler of request r calls fetch(url) and suspends at the await.
Fetch(r, url) == [r EXCEPT !.pc = "fetch", !.sent = Append(@, url)]

\* The handler of request r suspends at another await.
Await(r, pc) == [r EXCEPT !.pc = pc]

\* The handler of request r is resumed with the result of an exchange: no
\* response is being read any more.
Resumed(r, o) == [r EXCEPT !.log = Append(@, o), !.head = NoHead]

\* A request arriving on connection c: the record the handler starts from.
Arrive(ep, input) == [Idle EXCEPT !.ep = ep, !.input = input]

\* ------------------------------------------------------------ the upstream
\* What an exchange with an upstream comes to for the handler: a rejection
\* (of fetch(url) or of the read of the body), or a response with its body.
Reject(message) == [kind |-> "reject", message |-> message]
Reply(status, body) == [kind |-> "response", status |-> status, body |-> body]

\* A response body: the text of a JSON value, or text that is no JSON.
JsonBody(value) == [json |-> TRUE, value |-> value, chars |-> <<>>]
TextBody(chars) == [json |-> FALSE, value |-> Undefined, chars |-> chars]

\* node-fetch rejects fetch(url) with "request to <url> failed, reason: ..."
FetchErrorMessage(url) == <<"request to ">> \o url \o <<" failed, reason: ", "ECONNRESET">>

\* The ways await fetch(url) rejects.
FetchRejections(url) == {Reject(FetchErrorMessage(url))}

\* The ways the await that reads the body rejects: the connection breaks.
BodyRejections == {Reject(<<"Premature close">>)}

\* The content type a body is served under, where the model keeps it.
ContentType(body) == IF "contentType" \in DOMAIN body THEN body.contentType ELSE Null

\* What await fetch(url) resolves to, for the exchanges of a set of replies.
Heads(replies) == {ResponseHead(o.status, ContentType(o.body)) : o \in replies}

\* What the read of the body comes to, once fetch resolved to `head`.
BodyOutcomes(replies, head) ==
    {o \in replies : ResponseHead(o.status, ContentType(o.body)) = head} \cup BodyRejections

\* Mutant of JSONparse: text that is no JSON parses to null.
JSONparseLenient(body) ==
    [throws |-> FALSE, value |-> IF body.json THEN body.value ELSE Null]

\* JSON.parse(responseText): the value, or a SyntaxError.
JSONparse(body) ==
    IF body.json THEN [throws |-> FALSE, value |-> body.value]
    ELSE [throws |-> TRUE, value |-> Undefined]

\* await response.json() of node-fetch: the value, or a rejection
\* "invalid json response body at <url> reason: ...".
ResponseJson(url, body) ==
    IF body.json THEN [throws |-> FALSE, value |-> body.value, message |-> <<>>]
    ELSE [throws |-> TRUE, value |-> Undefined,
          message |-> <<"invalid json response body at ">> \o url
                        \o <<" reason: ", "Unexpected token">>]

\* Bodies of the Solar API: a payload, or an error object.
Payload(id) == [t |-> "object", id |-> id, error |-> Undefined]
ErrorBody(message) ==
    [t |-> "object", id |-> "error", error |-> [t |-> "object", message |-> message]]

NotFoundText == <<"Requested entity was ", "not found", ".">>
QuotaText == <<"Quota exceeded for quota metric">>
HtmlChars == <<"<", "h", "t", "m", "l", ">">>

\* The responses of the Solar API, by what the tier loop makes of them.
\* A success and a "not found": what the tier loop turns on.
FewSolarReplies ==
    {Reply(200, JsonBody(Payload("p1"))),
     Reply(404, JsonBody(ErrorBody(Str(NotFoundText))))}

\* A success and the errors: "not found", another message, and a message
\* that is no text.
SomeSolarReplies ==
    {Reply(200, JsonBody(Payload("p2"))),
     Reply(404, JsonBody(ErrorBody(Str(NotFoundText)))),
     Reply(429, JsonBody(ErrorBody(Str(QuotaText)))),
     Reply(400, JsonBody(ErrorBody(Num(5))))}

\* A success and the bodies that are no JSON object: HTML under a success
\* status and under a failure status, and null.
OddSolarReplies ==
    {Reply(200, JsonBody(Payload("p1"))),
     Reply(200, TextBody(HtmlChars)),
     Reply(502, TextBody(HtmlChars)),
     Reply(500, JsonBody(Null))}

\* ------------------------------------------------------------ completions
\* How a block of a handler ends: it sends a response and returns, it goes on
\* to the next iteration of the tier loop, or it throws.
Return(status, body) == [act |-> "respond", status |-> status, body |-> body, message |-> <<>>]
Continue == [act |-> "continue", status |-> 0, body |-> [x |-> 0], message |-> <<>>]
Throw(message) == [act |-> "throw", status |-> 0, body |-> [x |-> 0], message |-> message]

\* data.error?.message, for data that is an object.
ErrorMessage(data) ==
    IF data.error.t = "undefined" THEN Undefined ELSE data.error.message

\* data.error?.message?.includes('not found'), for data that is an object:
\* the optional chain stops at undefined and null only, so that a message
\* that is no string is asked for a method it has not.
NotFoundTest(data) ==
    LET m == ErrorMessage(data) IN
    IF m.t \in {"undefined", "null"} THEN [throws |-> FALSE, value |-> FALSE]
    ELSE IF m.t = "string" THEN [throws |-> FALSE, value |-> Includes(m.v, "not found")]
    ELSE [throws |-> TRUE, value |-> FALSE]

NoIncludesText == <<"data.error?.message?.includes is not a function">>

\* What reading .error of null throws.
NullErrorText == <<"Cannot read properties of null (reading 'error')">>

\* if (!lat || !lng)
CoordinatesMissing(input) == Falsy(input.lat) \/ Falsy(input.lng)

\* ------------------------------------------------------------ building insights
\* Mutant of InsightsUrl: every tier asks for HIGH (the quality is hard-coded).
InsightsUrlAlwaysHigh(input, quality) ==
    <<"https://solar.googleapis.com/v1/buildingInsights:findClosest?location.latitude=">>
    \o Text(input.lat) \o <<"&location.longitude=">> \o Text(input.lng)
    \o <<"&requiredQuality=", "HIGH", "&key=">> \o Text(GOOGLE_API_KEY)

\* The URL of the building-insights request for one quality level.
InsightsUrl(input, quality) ==
    IF quality = "BASE"
    THEN <<"https://solar.googleapis.com/v1/buildingInsights:findClosest?location.latitude=">>
         \o Text(input.lat) \o <<"&location.longitude=">> \o Text(input.lng)
         \o <<"&requiredQuality=", "BASE", "&experiments=", "EXPANDED_COVERAGE",
              "&key=">> \o Text(GOOGLE_API_KEY)
    ELSE <<"https://solar.googleapis.com/v1/buildingInsights:findClosest?location.latitude=">>
         \o Text(input.lat) \o <<"&location.longitude=">> \o Text(input.lng)
         \o <<"&requiredQuality=", quality, "&key=">> \o Text(GOOGLE_API_KEY)

\* Mutant of qualityInfo: every tier but HIGH is described as satellite.
qualityInfoTwoWay(quality) ==
    IF quality = "HIGH" THEN "0.1m/pixel aerial"
    ELSE "0.25m/pixel satellite (experimental)"

qualityInfo(quality) ==
    IF quality = "HIGH" THEN "0.1m/pixel aerial"
    ELSE IF quality = "MEDIUM" THEN "0.25m/pixel aerial"
    ELSE "0.25m/pixel satellite (experimental)"

\* The body of the inner try of the tier loop, from the settled exchange on.
InsightsTry(quality, o) ==
    IF o.kind = "reject" THEN Throw(o.message)
    ELSE LET parsed == JSONparse(o.body)
             data == parsed.value
         IN IF parsed.throws
            THEN Throw(<<"Invalid JSON response: ">> \o Substring0(o.body.chars, 100))
            ELSE IF Ok(o.status)
            THEN Return(200, [success |-> TRUE, quality |-> quality,
                              qualityInfo |-> qualityInfo(quality), data |-> data])
            ELSE IF data.t = "null" THEN Throw(NullErrorText)
            ELSE IF NotFoundTest(data).throws THEN Throw(NoIncludesText)
            ELSE IF NotFoundTest(data).value /\ quality # "BASE" THEN Continue
            ELSE Throw(<<"Solar API error: ">>
                       \o (IF Falsy(ErrorMessage(data)) THEN Text(Num(o.status))
                           ELSE Text(ErrorMessage(data))))

\* Mutant of InsightsCatch: the error of any tier is thrown on.
InsightsCatchAlwaysThrows(quality, error) ==
    Throw(error)

\* The inner catch of the tier loop.
InsightsCatch(quality, error) ==
    IF quality = "BASE" THEN Throw(error) ELSE Continue

\* One iteration of the tier loop, from the settled exchange on.
InsightsIteration(quality, o) ==
    LET t == InsightsTry(quality, o) IN
    IF t.act = "throw" THEN InsightsCatch(quality, t.message) ELSE t

\* The outer catch.
InsightsFailure(message) == Return(500, [success |-> FALSE, error |-> message])

\* throw new Error('No solar data available for this location') after the loop.
NoSolarData == <<"No solar data available for this location">>

\* Mutant of BuildingInsightsStart: the three tiers are requested at once.
BuildingInsightsStartParallel(input) ==
    LET r == Arrive("insights", input) IN
    IF CoordinatesMissing(input)
    THEN Respond(r, 400, [error |-> <<"Latitude and longitude are required">>])
    ELSE [r EXCEPT !.tier = 1, !.pc = "fetch",
                   !.sent = <<InsightsUrl(input, qualityLevels[1]),
                              InsightsUrl(input, qualityLevels[2]),
                              InsightsUrl(input, qualityLevels[3])>>]

\* POST /api/solar/building-insights, up to the first await.
BuildingInsightsStart(input) ==
    LET r == Arrive("insights", input) IN
    IF CoordinatesMissing(input)
    THEN Respond(r, 400, [error |-> <<"Latitude and longitude are required">>])
    ELSE Fetch([r EXCEPT !.tier = 1], InsightsUrl(input, qualityLevels[1]))

\* POST /api/solar/building-insights, resumed with the response of fetch(url):
\* it logs the status and calls response.text().
BuildingInsightsResponse(r, head) == Await([r EXCEPT !.head = head], "body")

\* POST /api/solar/building-insights, resumed with the rejection of fetch(url)
\* or with the outcome of response.text(), up to the next await or to the
\* response.
BuildingInsightsResume(r, o) ==
    LET quality == qualityLevels[r.tier]
        c == InsightsIteration(quality, o)
        r1 == Resumed(r, o)
    IN IF c.act = "respond" THEN Respond(r1, c.status, c.body)
       ELSE IF c.act = "throw"
       THEN LET f == InsightsFailure(c.message) IN Respond(r1, f.status, f.body)
       ELSE IF r.tier < Len(qualityLevels)
       THEN Fetch([r1 EXCEPT !.tier = r.tier + 1],
                  InsightsUrl(r.input, qualityLevels[r.tier + 1]))
       ELSE LET f == InsightsFailure(NoSolarData) IN Respond(r1, f.status, f.body)

\* ------------------------------------------------------------ imagery
\* Mutant of ImageryUrl: the experiment flag is sent for every tier.
ImageryUrlAlwaysExpanded(input, quality) ==
    <<"https://solar.googleapis.com/v1/dataLayers:get?location.latitude=">>
    \o Text(input.lat) \o <<"&location.longitude=">> \o Text(input.lng)
    \o <<"&radiusMeters=100", "&requiredQuality=", quality,
         "&experiments=", "EXPANDED_COVERAGE", "&key=">> \o Text(GOOGLE_API_KEY)

\* The URL of the data-layers request for one quality level.
ImageryUrl(input, quality) ==
    IF quality = "BASE"
    THEN <<"https://solar.googleapis.com/v1/dataLayers:get?location.latitude=">>
         \o Text(input.lat) \o <<"&location.longitude=">> \o Text(input.lng)
         \o <<"&radiusMeters=100", "&requiredQuality=", "BASE",
              "&experiments=", "EXPANDED_COVERAGE", "&key=">> \o Text(GOOGLE_API_KEY)
    ELSE <<"https://solar.googleapis.com/v1/dataLayers:get?location.latitude=">>
         \o Text(input.lat) \o <<"&location.longitude=">> \o Text(input.lng)
         \o <<"&radiusMeters=100", "&requiredQuality=", quality, "&key=">> \o Text(GOOGLE_API_KEY)

\* res.json({ success: false, data: null })
NoImagery == Return(200, [success |-> FALSE, data |-> Null])

\* The body of the inner try of the tier loop, from the settled exchange on.
ImageryTry(url, quality, o) ==
    IF o.kind = "reject" THEN Throw(o.message)
    ELSE LET parsed == ResponseJson(url, o.body)
             data == parsed.value
         IN IF parsed.throws THEN Throw(parsed.message)
            ELSE IF Ok(o.status)
            THEN Return(200, [success |-> TRUE, quality |-> quality, data |-> data])
            ELSE IF data.t = "null" THEN Throw(NullErrorText)
            ELSE IF NotFoundTest(data).throws THEN Throw(NoIncludesText)
            ELSE IF NotFoundTest(data).value /\ quality # "BASE" THEN Continue
            ELSE IF quality = "BASE" THEN NoImagery
            ELSE Continue

\* Mutant of ImageryCatch: at BASE the error is thrown on, as insights does.
ImageryCatchRethrows(quality, error) ==
    IF quality = "BASE" THEN Throw(error) ELSE Continue

\* The inner catch of the tier loop.
ImageryCatch(quality, error) ==
    IF quality = "BASE" THEN NoImagery ELSE Continue

\* One iteration of the tier loop, from the settled exchange on.
ImageryIteration(url, quality, o) ==
    LET t == ImageryTry(url, quality, o) IN
    IF t.act = "throw" THEN ImageryCatch(quality, t.message) ELSE t

\* The outer catch.
ImageryFailure(message) == Return(500, [success |-> FALSE, error |-> message])

\* Mutant of ImageryStart: the validation branch responds without returning.
ImageryStartNoReturn(input) ==
    LET r == Arrive("imagery", input) IN
    IF CoordinatesMissing(input)
    THEN Fetch(Respond([r EXCEPT !.tier = 1], 400,
                       [error |-> <<"Latitude and longitude are required">>]),
               ImageryUrl(input, qualityLevels[1]))
    ELSE Fetch([r EXCEPT !.tier = 1], ImageryUrl(input, qualityLevels[1]))

\* POST /api/solar/imagery, up to the first await.
ImageryStart(input) ==
    LET r == Arrive("imagery", input) IN
    IF CoordinatesMissing(input)
    THEN Respond(r, 400, [error |-> <<"Latitude and longitude are required">>])
    ELSE Fetch([r EXCEPT !.tier = 1], ImageryUrl(input, qualityLevels[1]))

\* POST /api/solar/imagery, resumed with the response of fetch(url): it calls
\* response.json().
ImageryResponse(r, head) == Await([r EXCEPT !.head = head], "body")

\* POST /api/solar/imagery, resumed with the rejection of fetch(url) or with
\* the outcome of response.json(), up to the next await or to the response.
ImageryResume(r, o) ==
    LET quality == qualityLevels[r.tier]
        c == ImageryIteration(r.sent[Len(r.sent)], quality, o)
        r1 == Resumed(r, o)
    IN IF c.act = "respond" THEN Respond(r1, c.status, c.body)
       ELSE IF c.act = "throw"
       THEN LET f == ImageryFailure(c.message) IN Respond(r1, f.status, f.body)
       ELSE IF r.tier < Len(qualityLevels)
       THEN Fetch([r1 EXCEPT !.tier = r.tier + 1],
                  ImageryUrl(r.input, qualityLevels[r.tier + 1]))
       ELSE Respond(r1, NoImagery.status, NoImagery.body)

\* ------------------------------------------------------------ geocoding
\* A character of an address is one UTF-16 code unit.  A printable ASCII
\* character, a tab, a line feed, a form feed or a carriage return is written
\* as itself; any code unit can be written "U+XXXX", its code in four
\* hexadecimal digits, and the backtick is written "U+0060" only.
\* The printable ASCII characters, U+0020 to U+005F and U+0061 to U+007E.
Ascii ==
    <<" !\"#$%&'()*+,-./0123456789:;<=>?@ABCDEFGHIJKLMNOPQRSTUVWXYZ[\\]^_",
      "abcdefghijklmnopqrstuvwxyz{|}~">>
HexDigits == "0123456789ABCDEF"

\* ch.charCodeAt(0)
CodeUnit(ch) ==
    LET Index(s) == CHOOSE i \in 1..Len(s) : SubSeq(s, i, i) = ch
        Hex(k) == (CHOOSE i \in 1..Len(HexDigits) :
                       SubSeq(HexDigits, i, i) = SubSeq(ch, k, k)) - 1
    IN IF Len(ch) = 6 /\ SubSeq(ch, 1, 2) = "U+"
       THEN 4096 * Hex(3) + 256 * Hex(4) + 16 * Hex(5) + Hex(6)
       ELSE IF ch = "\t" THEN 9
       ELSE IF ch = "\n" THEN 10
       ELSE IF ch = "\f" THEN 12
       ELSE IF ch = "\r" THEN 13
       ELSE IF \E i \in 1..Len(Ascii[1]) : SubSeq(Ascii[1], i, i) = ch
       THEN 31 + Index(Ascii[1])
       ELSE 96 + Index(Ascii[2])

\* The UTF-8 octets of a code point.
Utf8(v) ==
    IF v < 128 THEN <<v>>
    ELSE IF v < 2048 THEN <<192 + (v \div 64), 128 + (v % 64)>>
    ELSE IF v < 65536
    THEN <<224 + (v \div 4096), 128 + ((v \div 64) % 64), 128 + (v % 64)>>
    ELSE <<240 + (v \div 262144), 128 + ((v \div 4096) % 64),
           128 + ((v \div 64) % 64), 128 + (v % 64)>>

\* A sequence of octets, each written "%XX".
RECURSIVE PercentOctets(_)
PercentOctets(bs) ==
    IF bs = <<>> THEN ""
    ELSE "%" \o SubSeq(HexDigits, (bs[1] \div 16) + 1, (bs[1] \div 16) + 1)
             \o SubSeq(HexDigits, (bs[1] % 16) + 1, (bs[1] % 16) + 1)
             \o PercentOctets(Tail(bs))

\* What encodeURIComponent writes for one code point: the character itself
\* for a letter, a digit and - _ . ! ~ * ' ( ), and the escapes of its UTF-8
\* octets for every other.
EncodeCodePoint(v) ==
    LET unreserved ==
            "ABCDEFGHIJKLMNOPQRSTUVWXYZabcdefghijklmnopqrstuvwxyz0123456789-_.!~*'()"
        ch == IF v < 96 THEN SubSeq(Ascii[1], v - 31, v - 31)
              ELSE SubSeq(Ascii[2], v - 96, v - 96)
    IN IF /\ v > 32 /\ v < 127 /\ v # 96
          /\ \E i \in 1..Len(unreserved) : SubSeq(unreserved, i, i) = ch
       THEN ch
       ELSE PercentOctets(Utf8(v))

\* The two halves of a character beyond U+FFFF.
HighSurrogate(v) == v >= 55296 /\ v <= 56319
LowSurrogate(v) == v >= 56320 /\ v <= 57343

\* A surrogate code unit that has no partner: no character, so no UTF-8.
LoneSurrogate == "U+D800"

\* The code units of a text: a piece "U+XXXX" is one, any other piece has
\* one for each of its characters.
RECURSIVE CodeUnits(_)
CodeUnits(text) ==
    IF text = <<>> THEN <<>>
    ELSE LET piece == text[1] IN
         (IF Len(piece) = 6 /\ SubSeq(piece, 1, 2) = "U+" THEN <<CodeUnit(piece)>>
          ELSE [i \in 1..Len(piece) |-> CodeUnit(SubSeq(piece, i, i))])
         \o CodeUnits(Tail(text))

\* The loop of encodeURIComponent over the code units of a string, from the
\* k-th on: a character is written as itself or as the escapes of its UTF-8
\* octets, a surrogate pair is one character, and a surrogate without its
\* partner is a URIError.
RECURSIVE Encode(_, _, _)
Encode(units, k, written) ==
    IF k > Len(units) THEN [throws |-> FALSE, value |-> written]
    ELSE IF LowSurrogate(units[k]) THEN [throws |-> TRUE, value |-> <<>>]
    ELSE IF ~HighSurrogate(units[k])
    THEN Encode(units, k + 1, Append(written, EncodeCodePoint(units[k])))
    ELSE IF k = Len(units) THEN [throws |-> TRUE, value |-> <<>>]
    ELSE IF ~LowSurrogate(units[k + 1]) THEN [throws |-> TRUE, value |-> <<>>]
    ELSE Encode(units, k + 2,
                Append(written,
                       EncodeCodePoint((units[k] - 55296) * 1024
                                       + (units[k + 1] - 56320) + 65536)))

\* encodeURIComponent(text): the escaped text, one piece for each character,
\* or a URIError.
encodeURIComponent(text) == Encode(CodeUnits(text), 1, <<>>)

URIMalformedText == <<"URI malformed">>

GeocodeUrl(input) ==
    <<"https://maps.googleapis.com/maps/api/geocode/json?address=">>
    \o encodeURIComponent(Text(input.address)).value \o <<"&key=">> \o Text(GOOGLE_API_KEY)

\* Bodies of the geocoding provider.
GeoResult(lat, lng, formatted) == [lat |-> lat, lng |-> lng, formatted_address |-> formatted]
GeoBody(status, results) == [t |-> "object", status |-> status, results |-> results]
Array(items) == [t |-> "array", v |-> items]

\* The responses of the geocoding provider.
GeocodeReplies ==
    { Reply(200, JsonBody(GeoBody(Str(<<"OK">>),
            Array(<<GeoResult(45, -120, <<"1 Main St">>), GeoResult(46, 10, <<"1 Main Rd">>)>>)))),
      Reply(200, JsonBody(GeoBody(Str(<<"OK">>), Array(<<>>)))),
      Reply(200, JsonBody(GeoBody(Str(<<"OK">>), Undefined))),
      Reply(200, JsonBody(GeoBody(Str(<<"ZERO_RESULTS">>), Array(<<>>)))),
      Reply(200, JsonBody(GeoBody(Str(<<"REQUEST_DENIED">>), Undefined))),
      Reply(200, JsonBody(Null)),
      Reply(502, TextBody(HtmlChars)) }

\* Mutant of GeocodeTry: the provider's status is not tested.
GeocodeTryAnyStatus(url, o) ==
    IF o.kind = "reject" THEN Throw(o.message)
    ELSE LET parsed == ResponseJson(url, o.body)
             data == parsed.value
         IN IF parsed.throws THEN Throw(parsed.message)
            ELSE IF data.t = "null"
            THEN Throw(<<"Cannot read properties of null (reading 'results')">>)
            ELSE IF data.results.t = "undefined"
            THEN Throw(<<"Cannot read properties of undefined (reading 'length')">>)
            ELSE IF Len(data.results.v) > 0
            THEN LET result == data.results.v[1] IN
                 Return(200, [success |-> TRUE, lat |-> result.lat, lng |-> result.lng,
                              formattedAddress |-> result.formatted_address])
            ELSE Return(400, [success |-> FALSE,
                              error |-> <<"Geocoding failed: ">> \o Text(data.status)])

\* The try block of POST /api/geocode, from the settled exchange on.
GeocodeTry(url, o) ==
    IF o.kind = "reject" THEN Throw(o.message)
    ELSE LET parsed == ResponseJson(url, o.body)
             data == parsed.value
         IN IF parsed.throws THEN Throw(parsed.message)
            ELSE IF data.t = "null"
            THEN Throw(<<"Cannot read properties of null (reading 'status')">>)
            ELSE IF data.status = Str(<<"OK">>) /\ data.results.t = "undefined"
            THEN Throw(<<"Cannot read properties of undefined (reading 'length')">>)
            ELSE IF data.status = Str(<<"OK">>) /\ Len(data.results.v) > 0
            THEN LET result == data.results.v[1] IN
                 Return(200, [success |-> TRUE, lat |-> result.lat, lng |-> result.lng,
                              formattedAddress |-> result.formatted_address])
            ELSE Return(400, [success |-> FALSE,
                              error |-> <<"Geocoding failed: ">> \o Text(data.status)])

\* The catch of POST /api/geocode.
GeocodeCatch(message) ==
    Return(500, [success |-> FALSE, error |-> <<"Network error: ">> \o message])

\* Mutant of GeocodeStart: the address is not checked.
GeocodeStartUnchecked(input) == Fetch(Arrive("geocode", input), GeocodeUrl(input))

\* POST /api/geocode, up to the first await.
GeocodeStart(input) ==
    LET r == Arrive("geocode", input) IN
    IF Falsy(input.address)
    THEN Respond(r, 400, [error |-> <<"Address is required">>])
    ELSE IF encodeURIComponent(Text(input.address)).throws
    THEN LET c == GeocodeCatch(URIMalformedText) IN Respond(r, c.status, c.body)
    ELSE Fetch(r, GeocodeUrl(input))

\* POST /api/geocode, resumed with the response of fetch(url): it calls
\* response.json().
GeocodeResponse(r, head) == Await([r EXCEPT !.head = head], "body")

\* POST /api/geocode, resumed with the rejection of fetch(url) or with the
\* outcome of response.json(), up to the response.
GeocodeResume(r, o) ==
    LET t == GeocodeTry(r.sent[Len(r.sent)], o)
        c == IF t.act = "throw" THEN GeocodeCatch(t.message) ELSE t
    IN Respond(Resumed(r, o), c.status, c.body)

\* ------------------------------------------------------------ rasters
\* What the raw tile store serves: an image, or bytes that are no image.
Tile(format, width, height, channels, data) ==
    [image |-> TRUE, format |-> format, width |-> width, height |-> height,
     channels |-> channels, data |-> data]
NoImage == [image |-> FALSE, format |-> "none", width |-> 0, height |-> 0,
            channels |-> 0, data |-> <<>>]

\* A body of the tile store, with the content type it is served under.
ImageBody(contentType, tile) == [contentType |-> contentType, tile |-> tile]

\* `${url}&key=${GOOGLE_API_KEY}`
KeyedUrl(input) == Text(input.url) \o <<"&key=">> \o Text(GOOGLE_API_KEY)

UnsupportedImageText == <<"Input buffer contains unsupported image format">>

\* ------------------------------------------------------------ image proxy
\* The body of a response the handler does not read.
Unread(head) == ImageBody(head.contentType, NoImage)

\* The catch of GET /api/proxy-image.
ProxyImageCatch(message) == Return(500, [error |-> <<"Internal server error">>])

\* GET /api/proxy-image, up to the first await.
ProxyImageStart(input) ==
    LET r == Arrive("proxy-image", input) IN
    IF Falsy(input.url)
    THEN Respond(r, 400, [error |-> <<"URL parameter required">>])
    ELSE Fetch(r, KeyedUrl(input))

\* GET /api/proxy-image, resumed with the response of fetch(imageUrl): it
\* answers a failure status, or sets the headers and calls
\* response.arrayBuffer().
ProxyImageResponse(r, head) ==
    IF ~Ok(head.status)
    THEN Respond(Resumed([r EXCEPT !.head = head], Reply(head.status, Unread(head))),
                 head.status, [error |-> <<"Failed to fetch image">>])
    ELSE Await([r EXCEPT !.head = head,
                         !.headers =
                            <<Header("Content-Type",
                                     IF Falsy(head.contentType) THEN Str(<<"image/tiff">>)
                                     ELSE head.contentType),
                              Header("Cache-Control", Str(<<"public, max-age=3600">>))>>],
               "body")

\* GET /api/proxy-image, resumed with the rejection of fetch(imageUrl) or
\* with the outcome of response.arrayBuffer(), up to the response.
ProxyImageResume(r, o) ==
    LET c == IF o.kind = "reject" THEN ProxyImageCatch(o.message)
             ELSE Return(200, [bytes |-> o.body.tile])
    IN Respond(Resumed(r, o), c.status, c.body)

\* ------------------------------------------------------------ PNG conversion
\* sharp(inputBuffer).png().toBuffer(): the image re-encoded as PNG.
Png(tile) == [tile EXCEPT !.format = "png"]

\* The catch of GET /api/convert-image.
ConvertImageCatch(message) ==
    Return(500, [error |-> <<"Failed to convert image: ">> \o message])

\* GET /api/convert-image, up to the first await.
ConvertImageStart(input) ==
    LET r == Arrive("convert-image", input) IN
    IF Falsy(input.url)
    THEN Respond(r, 400, [error |-> <<"URL parameter required">>])
    ELSE Fetch(r, KeyedUrl(input))

\* GET /api/convert-image, resumed with the response of fetch(imageUrl): it
\* answers a failure status, or calls response.arrayBuffer().
ConvertImageResponse(r, head) ==
    IF ~Ok(head.status)
    THEN Respond(Resumed([r EXCEPT !.head = head], Reply(head.status, Unread(head))),
                 head.status, [error |-> <<"Failed to fetch image">>])
    ELSE Await([r EXCEPT !.head = head], "body")

\* GET /api/convert-image, resumed with the rejection of fetch(imageUrl) or
\* with the outcome of response.arrayBuffer(): it calls sharp to re-encode.
ConvertImageBuffer(r, o) ==
    IF o.kind = "reject"
    THEN LET c == ConvertImageCatch(o.message) IN Respond(Resumed(r, o), c.status, c.body)
    ELSE Await(Resumed(r, o), "png")

\* GET /api/convert-image, resumed with the outcome of toBuffer(): the bytes
\* were an image or not.
ConvertImagePng(r) ==
    LET tile == r.log[1].body.tile IN
    IF ~tile.image
    THEN LET c == ConvertImageCatch(UnsupportedImageText) IN Respond(r, c.status, c.body)
    ELSE Respond([r EXCEPT !.headers = <<Header("Content-Type", Str(<<"image/png">>)),
                                         Header("Cache-Control",
                                                Str(<<"public, max-age=3600">>))>>],
                 200, [bytes |-> Png(tile)])

\* ------------------------------------------------------------ GeoTIFF processing
\* What reading a buffer past its end yields (undefined, which is not a number).
Hole == -1

\* data[i] of a Buffer, i counted from 0.
At(data, i) == IF i < Len(data) THEN data[i + 1] ELSE Hole

\* The alpha channel sharp appends to a pixel: fully opaque.
Opaque == 255

\* The pixels of an image with an alpha channel appended to each.
RECURSIVE AddAlpha(_, _, _)
AddAlpha(data, channels, i) ==
    IF i >= Len(data) THEN <<>>
    ELSE SubSeq(data, i + 1, i + channels) \o <<Opaque>> \o AddAlpha(data, channels, i + channels)

\* image.raw().toBuffer({ resolveWithObject: true }): data and info, for an
\* instance with or without the ensureAlpha option set.  An image of one or
\* three channels has no alpha channel and gets one.
RawBuffer(tile, alpha) ==
    IF alpha /\ tile.channels \in {1, 3}
    THEN [data |-> AddAlpha(tile.data, tile.channels, 0),
          info |-> [width |-> tile.width, height |-> tile.height,
                    channels |-> tile.channels + 1]]
    ELSE [data |-> tile.data,
          info |-> [width |-> tile.width, height |-> tile.height,
                    channels |-> tile.channels]]

\* image.ensureAlpha(false): a sharp whose ensureAlpha takes no argument sets
\* the option ("adds"); a sharp whose ensureAlpha takes the alpha level
\* refuses a value that is no number ("throws").
AlphaBehaviours == {"adds", "throws"}

InvalidAlphaText ==
    <<"Expected number between 0 and 1 for alpha but received false of type boolean">>

\* Mutant of RgbLoop: the stride is three whatever the channel count.
RECURSIVE RgbLoopStride3(_, _, _, _)
RgbLoopStride3(data, channels, i, acc) ==
    IF i < Len(data)
    THEN RgbLoopStride3(data, channels, i + 3,
                        [red |-> Append(acc.red, At(data, i)),
                         green |-> Append(acc.green, At(data, i + 1)),
                         blue |-> Append(acc.blue, At(data, i + 2))])
    ELSE acc

\* for (let i = 0; i < data.length; i += channels) { red.push(data[i]); ... }
RECURSIVE RgbLoop(_, _, _, _)
RgbLoop(data, channels, i, acc) ==
    IF i < Len(data)
    THEN RgbLoop(data, channels, i + channels,
                 [red |-> Append(acc.red, At(data, i)),
                  green |-> Append(acc.green, At(data, i + 1)),
                  blue |-> Append(acc.blue, At(data, i + 2))])
    ELSE acc

\* for (let i = 0; i < data.length; i += step) { values.push(data[i]); }
RECURSIVE StepLoop(_, _, _, _)
StepLoop(data, step, i, acc) ==
    IF i < Len(data) THEN StepLoop(data, step, i + step, Append(acc, At(data, i)))
    ELSE acc

\* Mutant of ExtractValues: the stride is applied whatever the format.
ExtractValuesAlwaysStride(format, data, info) == StepLoop(data, info.channels, 0, <<>>)

\* The values of a single-band layer.
ExtractValues(format, data, info) ==
    IF format = "tiff" THEN StepLoop(data, info.channels, 0, <<>>)
    ELSE StepLoop(data, 1, 0, <<>>)

\* Mutant of IsValidValue: 255 is taken for a measurement.
IsValidValueKeeps255(v) == v # 0 /\ v # Hole

\* v => v !== 255 && v !== 0 && !isNaN(v)
IsValidValue(v) == v # 255 /\ v # 0 /\ v # Hole

\* values.filter(v => v !== 255 && v !== 0 && !isNaN(v))
ValidValues(values) == SelectSeq(values, IsValidValue)

\* Math.min(...xs) and Math.max(...xs) pass every element as an argument,
\* and the engine has room on its stack for so many arguments only: a call
\* with up to SpreadFits arguments returns, a call with SpreadOverflows
\* arguments or more throws a RangeError, and between the two it depends on
\* the stack the call finds.
Overflows(n) ==
    LET SpreadFits == 32768
        SpreadOverflows == 130000
    IN IF n <= SpreadFits THEN {FALSE}
       ELSE IF n >= SpreadOverflows THEN {TRUE}
       ELSE BOOLEAN

RangeErrorText == <<"Maximum call stack size exceeded">>

\* Math.min(...xs) and Math.max(...xs) of a non-empty array.
MathMin(xs, overflow) ==
    IF overflow THEN [throws |-> TRUE, value |-> 0]
    ELSE [throws |-> FALSE,
          value |-> CHOOSE m \in {xs[i] : i \in DOMAIN xs} : \A i \in DOMAIN xs : m <= xs[i]]
MathMax(xs, overflow) ==
    IF overflow THEN [throws |-> TRUE, value |-> 0]
    ELSE [throws |-> FALSE,
          value |-> CHOOSE m \in {xs[i] : i \in DOMAIN xs} : \A i \in DOMAIN xs : m >= xs[i]]

\* xs.reduce((a, b) => a + b, 0)
RECURSIVE ReduceSum(_)
ReduceSum(xs) == IF xs = <<>> THEN 0 ELSE xs[1] + ReduceSum(Tail(xs))

\* A quotient of two integers, as a fraction in lowest terms.
RECURSIVE Gcd(_, _)
Gcd(a, b) == IF b = 0 THEN a ELSE Gcd(b, a % b)
Quotient(a, b) == LET g == Gcd(a, b) IN [num |-> a \div g, den |-> b \div g]

\* const min = ..., max = ..., mean = ...: the statistics, or the RangeError.
Statistics(values, overflow) ==
    LET validValues == ValidValues(values)
        min == IF Len(validValues) > 0 THEN MathMin(validValues, overflow)
               ELSE [throws |-> FALSE, value |-> 0]
        max == IF Len(validValues) > 0 THEN MathMax(validValues, overflow)
               ELSE [throws |-> FALSE, value |-> 255]
    IN [throws |-> min.throws \/ max.throws,
        min |-> min.value,
        max |-> max.value,
        mean |-> IF Len(validValues) > 0
                 THEN Quotient(ReduceSum(validValues), Len(validValues))
                 ELSE Quotient(0, 1)]

\* Mutant of SingleBand: the filtered values are returned as the data.
SingleBandFiltered(input, tile, alpha, overflow) ==
    LET raw == RawBuffer(tile, alpha)
        values == ExtractValues(tile.format, raw.data, raw.info)
        stats == Statistics(values, overflow)
    IN IF stats.throws THEN Throw(RangeErrorText)
       ELSE Return(200, [success |-> TRUE, type |-> "single-band", layer |-> input.layer,
                         width |-> raw.info.width, height |-> raw.info.height,
                         stats |-> [min |-> stats.min, max |-> stats.max, mean |-> stats.mean],
                         data |-> ValidValues(values)])

\* The single-band part of the try block, from the decoded buffer on: values,
\* statistics, response.
SingleBand(input, tile, alpha, overflow) ==
    LET raw == RawBuffer(tile, alpha)
        values == ExtractValues(tile.format, raw.data, raw.info)
        stats == Statistics(values, overflow)
    IN IF stats.throws THEN Throw(RangeErrorText)
       ELSE Return(200, [success |-> TRUE, type |-> "single-band", layer |-> input.layer,
                         width |-> raw.info.width, height |-> raw.info.height,
                         stats |-> [min |-> stats.min, max |-> stats.max, mean |-> stats.mean],
                         data |-> values])

\* The number of arguments of Math.min and Math.max for a decoded buffer.
SpreadArguments(tile, alpha) ==
    LET raw == RawBuffer(tile, alpha) IN
    Len(ValidValues(ExtractValues(tile.format, raw.data, raw.info)))

\* The catch of GET /api/process-geotiff.
ProcessGeotiffCatch(message) ==
    Return(500, [error |-> <<"Failed to process TIFF: ">> \o message])

\* GET /api/process-geotiff, up to the first await.
ProcessGeotiffStart(input) ==
    LET r == Arrive("process-geotiff", input) IN
    IF Falsy(input.url)
    THEN Respond(r, 400, [error |-> <<"URL parameter required">>])
    ELSE Fetch(r, KeyedUrl(input))

\* GET /api/process-geotiff, resumed with the response of fetch(imageUrl): it
\* answers a failure status, or calls response.arrayBuffer().
ProcessGeotiffResponse(r, head) ==
    IF ~Ok(head.status)
    THEN Respond(Resumed([r EXCEPT !.head = head], Reply(head.status, Unread(head))),
                 head.status, [error |-> <<"Failed to fetch TIFF">>])
    ELSE Await([r EXCEPT !.head = head], "body")

\* GET /api/process-geotiff, resumed with the rejection of fetch(imageUrl) or
\* with the outcome of response.arrayBuffer(): it calls image.metadata().
ProcessGeotiffBuffer(r, o) ==
    IF o.kind = "reject"
    THEN LET c == ProcessGeotiffCatch(o.message) IN Respond(Resumed(r, o), c.status, c.body)
    ELSE Await(Resumed(r, o), "metadata")

\* GET /api/process-geotiff, resumed with the outcome of image.metadata():
\* bytes that are no image end the request; for the rgb layer ensureAlpha
\* throws or sets the option, and the buffer is decoded.
ProcessGeotiffMetadata(r, behaviour) ==
    LET tile == r.log[1].body.tile IN
    IF ~tile.image
    THEN LET c == ProcessGeotiffCatch(UnsupportedImageText) IN Respond(r, c.status, c.body)
    ELSE IF r.input.layer = Str(<<"rgb">>)
    THEN IF behaviour = "throws"
         THEN LET c == ProcessGeotiffCatch(InvalidAlphaText) IN Respond(r, c.status, c.body)
         ELSE Await([r EXCEPT !.alpha = TRUE], "rgb")
    ELSE Await(r, "raw")

\* GET /api/process-geotiff, resumed with the buffer decoded for the rgb
\* layer: it answers, or goes on to decode the same image once more.
ProcessGeotiffRgb(r) ==
    LET raw == RawBuffer(r.log[1].body.tile, r.alpha) IN
    IF raw.info.channels >= 3
    THEN Respond(r, 200, [success |-> TRUE, type |-> "rgb",
                          width |-> raw.info.width, height |-> raw.info.height,
                          data |-> RgbLoop(raw.data, raw.info.channels, 0,
                                           [red |-> <<>>, green |-> <<>>, blue |-> <<>>])])
    ELSE Await(r, "raw")

\* GET /api/process-geotiff, resumed with the buffer decoded for a single
\* band, up to the response.
ProcessGeotiffRaw(r, overflow) ==
    LET t == SingleBand(r.input, r.log[1].body.tile, r.alpha, overflow)
        c == IF t.act = "throw" THEN ProcessGeotiffCatch(t.message) ELSE t
    IN Respond(r, c.status, c.body)

\* ------------------------------------------------------------ health
\* new Date().toISOString(), at the moments the clock of the model shows.
Timestamps == {"2024-01-01T00:00:00.000Z", "2024-06-30T12:00:00.000Z"}

\* GET /api/health
HealthStart(now) ==
    Respond(Arrive("health", NoInput), 200,
            [status |-> "healthy", timestamp |-> now,
             env |-> [hasApiKey |-> ~Falsy(GOOGLE_API_KEY),
                      hasSigningSecret |-> ~Falsy(URL_SIGNING_SECRET)]])

\* ------------------------------------------------------------ frontend
\* app.use(express.static('public')): a GET whose path names a file of the
\* directory public is answered with that file, ahead of every route.
PublicFileStart(input) ==
    LET path == Text(input.path) IN
    Respond(Arrive("static", input), 200,
            [file |-> <<"public">> \o path
                      \o (IF path[Len(path)] = "/" THEN <<"index.html">> ELSE <<>>)])

\* app.get('*', ...): every other GET is answered with the page of the
\* frontend, res.sendFile(path.join(__dirname, 'public', 'index.html')).
FrontendStart(input) ==
    Respond(Arrive("frontend", input), 200, [file |-> <<"public", "/", "index.html">>])

\* ------------------------------------------------------------ inputs
\* The coordinates a client sends: absent, or a number within the range of
\* the data model (zero, and one value apart from it).
CoordinateInputs ==
    {[NoInput EXCEPT !.lat = la, !.lng = lo] :
        la \in {Undefined, Num(0), Num(45)}, lo \in {Undefined, Num(0), Num(180)}}

\* One coordinate, and a missing latitude.
FewCoordinateInputs ==
    {[NoInput EXCEPT !.lat = la, !.lng = Num(180)] : la \in {Undefined, Num(45)}}

\* The addresses a client sends: absent, empty, or text.
AddressInputs ==
    {[NoInput EXCEPT !.address = a] :
        a \in {Undefined, Str(<<>>), Str(<<"1", " ", "A", "&", "B">>),
               Str(<<"a", "/", "\"", "\n", "U+0060", "U+00E9", "U+20AC", "U+D83D", "U+DE00">>),
               Str(<<"a", LoneSurrogate>>)}}

\* The paths of GET requests that no API route matches.
PathInputs ==
    {[NoInput EXCEPT !.path = p] :
        p \in {Str(<<"/">>), Str(<<"/", "app.js">>), Str(<<"/api/unknown">>)}}

\* The tile references and layers a client sends.
TileRef == <<"https://solar.googleapis.com/v1/geoTiff:get?id=", "t1">>
UrlInputs == {[NoInput EXCEPT !.url = u] : u \in {Undefined, Str(<<>>), Str(TileRef)}}
LayerInputs ==
    {[NoInput EXCEPT !.url = u, !.layer = l] :
        u \in {Undefined, Str(TileRef)},
        l \in {Undefined, Str(<<"rgb">>), Str(<<"annualFlux">>)}}

\* The rasters of the tile store.  The data of an image is width * height *
\* channels bytes, row by row.
Formats == {"tiff", "png"}
GreyTiles(maxPixels) ==
    {Tile(f, Len(d), 1, 1, d) :
        f \in Formats, d \in UNION {[1..n -> {0, 10, 20, 30, 255}] : n \in 1..maxPixels}}

ColourTiles(maxPixels) ==
    UNION {{Tile(f, n, 1, c, d) : f \in Formats, d \in [1..(n * c) -> {7, 255}]} :
              n \in 1..maxPixels, c \in 2..4}

\* A few rasters, for the specification of the whole server.
SomeTiles ==
    {Tile("tiff", 2, 1, 1, <<0, 10>>), Tile("png", 1, 1, 3, <<7, 255, 7>>),
     Tile("tiff", 1, 1, 4, <<7, 7, 255, 255>>)}

\* All rasters up to the bounds, for the specification of the raster decoder.
AllTiles == GreyTiles(MaxPixels) \cup ColourTiles(MaxColourPixels)

\* The responses of the tile store.
TileReplies(tiles) ==
    {Reply(404, ImageBody(Str(<<"text/html">>), NoImage)),
     Reply(200, ImageBody(Null, NoImage))}
    \cup {Reply(200, ImageBody(Str(<<"image/tiff">>), t)) : t \in tiles}

\* ------------------------------------------------------------ actions
\* The exchange of request r that is outstanding: its URL.
Outstanding(r) == r.sent[Len(r.sent)]

\* The handler of the request on connection c waits at the await `pc`.
Awaiting(c, ep, pc) == reqs[c].ep = ep /\ reqs[c].pc = pc

\* The handler of the request on connection c runs up to r.
Serve(c, r) == reqs' = [reqs EXCEPT ![c] = r] /\ UNCHANGED env

PostGeocode(c) ==
    /\ reqs[c].pc = "idle"
    /\ \E input \in AddressInputs : Serve(c, GeocodeStart(input))

GeocodeFetchSettles(c) ==
    /\ Awaiting(c, "geocode", "fetch")
    /\ \/ \E o \in FetchRejections(Outstanding(reqs[c])) : Serve(c, GeocodeResume(reqs[c], o))
       \/ \E head \in Heads(GeocodeReplies) : Serve(c, GeocodeResponse(reqs[c], head))

GeocodeBodySettles(c) ==
    /\ Awaiting(c, "geocode", "body")
    /\ \E o \in BodyOutcomes(GeocodeReplies, reqs[c].head) :
         Serve(c, GeocodeResume(reqs[c], o))

\* The actions of the tiered endpoints take the coordinates the clients send
\* and the responses the Solar API gives from the specification.
PostBuildingInsights(c, inputs) ==
    /\ reqs[c].pc = "idle"
    /\ \E input \in inputs : Serve(c, BuildingInsightsStart(input))

BuildingInsightsFetchSettles(c, replies) ==
    /\ Awaiting(c, "insights", "fetch")
    /\ \/ \E o \in FetchRejections(Outstanding(reqs[c])) :
            Serve(c, BuildingInsightsResume(reqs[c], o))
       \/ \E head \in Heads(replies) : Serve(c, BuildingInsightsResponse(reqs[c], head))

BuildingInsightsBodySettles(c, replies) ==
    /\ Awaiting(c, "insights", "body")
    /\ \E o \in BodyOutcomes(replies, reqs[c].head) :
         Serve(c, BuildingInsightsResume(reqs[c], o))

PostImagery(c, inputs) ==
    /\ reqs[c].pc = "idle"
    /\ \E input \in inputs : Serve(c, ImageryStart(input))

ImageryFetchSettles(c, replies) ==
    /\ Awaiting(c, "imagery", "fetch")
    /\ \/ \E o \in FetchRejections(Outstanding(reqs[c])) : Serve(c, ImageryResume(reqs[c], o))
       \/ \E head \in Heads(replies) : Serve(c, ImageryResponse(reqs[c], head))

ImageryBodySettles(c, replies) ==
    /\ Awaiting(c, "imagery", "body")
    /\ \E o \in BodyOutcomes(replies, reqs[c].head) : Serve(c, ImageryResume(reqs[c], o))

GetProxyImage(c) ==
    /\ reqs[c].pc = "idle"
    /\ \E input \in UrlInputs : Serve(c, ProxyImageStart(input))

ProxyImageFetchSettles(c) ==
    /\ Awaiting(c, "proxy-image", "fetch")
    /\ \/ \E o \in FetchRejections(Outstanding(reqs[c])) : Serve(c, ProxyImageResume(reqs[c], o))
       \/ \E head \in Heads(TileReplies(SomeTiles)) : Serve(c, ProxyImageResponse(reqs[c], head))

ProxyImageBodySettles(c) ==
    /\ Awaiting(c, "proxy-image", "body")
    /\ \E o \in BodyOutcomes(TileReplies(SomeTiles), reqs[c].head) :
         Serve(c, ProxyImageResume(reqs[c], o))

GetProcessGeotiff(c) ==
    /\ reqs[c].pc = "idle"
    /\ \E input \in LayerInputs : Serve(c, ProcessGeotiffStart(input))

ProcessGeotiffFetchSettles(c) ==
    /\ Awaiting(c, "process-geotiff", "fetch")
    /\ \/ \E o \in FetchRejections(Outstanding(reqs[c])) :
            Serve(c, ProcessGeotiffBuffer(reqs[c], o))
       \/ \E head \in Heads(TileReplies(SomeTiles)) :
            Serve(c, ProcessGeotiffResponse(reqs[c], head))

ProcessGeotiffBodySettles(c) ==
    /\ Awaiting(c, "process-geotiff", "body")
    /\ \E o \in BodyOutcomes(TileReplies(SomeTiles), reqs[c].head) :
         Serve(c, ProcessGeotiffBuffer(reqs[c], o))

ProcessGeotiffMetadataSettles(c) ==
    /\ Awaiting(c, "process-geotiff", "metadata")
    /\ \E behaviour \in AlphaBehaviours : Serve(c, ProcessGeotiffMetadata(reqs[c], behaviour))

ProcessGeotiffRgbSettles(c) ==
    /\ Awaiting(c, "process-geotiff", "rgb")
    /\ Serve(c, ProcessGeotiffRgb(reqs[c]))

ProcessGeotiffRawSettles(c) ==
    /\ Awaiting(c, "process-geotiff", "raw")
    /\ \E overflow \in Overflows(SpreadArguments(reqs[c].log[1].body.tile, reqs[c].alpha)) :
         Serve(c, ProcessGeotiffRaw(reqs[c], overflow))

GetConvertImage(c) ==
    /\ reqs[c].pc = "idle"
    /\ \E input \in UrlInputs : Serve(c, ConvertImageStart(input))

ConvertImageFetchSettles(c) ==
    /\ Awaiting(c, "convert-image", "fetch")
    /\ \/ \E o \in FetchRejections(Outstanding(reqs[c])) :
            Serve(c, ConvertImageBuffer(reqs[c], o))
       \/ \E head \in Heads(TileReplies(SomeTiles)) :
            Serve(c, ConvertImageResponse(reqs[c], head))

ConvertImageBodySettles(c) ==
    /\ Awaiting(c, "convert-image", "body")
    /\ \E o \in BodyOutcomes(TileReplies(SomeTiles), reqs[c].head) :
         Serve(c, ConvertImageBuffer(reqs[c], o))

ConvertImagePngSettles(c) ==
    /\ Awaiting(c, "convert-image", "png")
    /\ Serve(c, ConvertImagePng(reqs[c]))

GetHealth(c) ==
    /\ reqs[c].pc = "idle"
    /\ \E now \in Timestamps : Serve(c, HealthStart(now))

\* A GET of a path that names a file of the directory public.
GetPublicFile(c) ==
    /\ reqs[c].pc = "idle"
    /\ \E input \in PathInputs : Serve(c, PublicFileStart(input))

\* A GET of a path that names no file of public and matches no API route.
GetFrontend(c) ==
    /\ reqs[c].pc = "idle"
    /\ \E input \in PathInputs : Serve(c, FrontendStart(input))

\* The client has its response; the connection is free again.
Close(c) ==
    /\ reqs[c].pc = "done"
    /\ Serve(c, Idle)

Init ==
    /\ reqs = [c \in Clients |-> Idle]
    /\ env \in Environments

\* The whole server.  A request arrives on any free connection, whatever the
\* requests on the other connections are doing.
Next ==
    \/ \E c \in Clients : PostGeocode(c)
    \/ \E c \in Clients : GeocodeFetchSettles(c)
    \/ \E c \in Clients : GeocodeBodySettles(c)
    \/ \E c \in Clients : PostBuildingInsights(c, CoordinateInputs)
    \/ \E c \in Clients : BuildingInsightsFetchSettles(c, FewSolarReplies)
    \/ \E c \in Clients : BuildingInsightsBodySettles(c, FewSolarReplies)
    \/ \E c \in Clients : PostImagery(c, CoordinateInputs)
    \/ \E c \in Clients : ImageryFetchSettles(c, FewSolarReplies)
    \/ \E c \in Clients : ImageryBodySettles(c, FewSolarReplies)
    \/ \E c \in Clients : GetProxyImage(c)
    \/ \E c \in Clients : ProxyImageFetchSettles(c)
    \/ \E c \in Clients : ProxyImageBodySettles(c)
    \/ \E c \in Clients : GetProcessGeotiff(c)
    \/ \E c \in Clients : ProcessGeotiffFetchSettles(c)
    \/ \E c \in Clients : ProcessGeotiffBodySettles(c)
    \/ \E c \in Clients : ProcessGeotiffMetadataSettles(c)
    \/ \E c \in Clients : ProcessGeotiffRgbSettles(c)
    \/ \E c \in Clients : ProcessGeotiffRawSettles(c)
    \/ \E c \in Clients : GetConvertImage(c)
    \/ \E c \in Clients : ConvertImageFetchSettles(c)
    \/ \E c \in Clients : ConvertImageBodySettles(c)
    \/ \E c \in Clients : ConvertImagePngSettles(c)
    \/ \E c \in Clients : GetHealth(c)
    \/ \E c \in Clients : GetPublicFile(c)
    \/ \E c \in Clients : GetFrontend(c)
    \/ \E c \in Clients : Close(c)

Spec == Init /\ [][Next]_vars

\* The tiered endpoints alone, for one coordinate and for a missing latitude,
\* under the errors of the Solar API.
NextConc ==
    \/ \E c \in Clients : PostBuildingInsights(c, FewCoordinateInputs)
    \/ \E c \in Clients : BuildingInsightsFetchSettles(c, SomeSolarReplies)
    \/ \E c \in Clients : BuildingInsightsBodySettles(c, SomeSolarReplies)
    \/ \E c \in Clients : PostImagery(c, FewCoordinateInputs)
    \/ \E c \in Clients : ImageryFetchSettles(c, SomeSolarReplies)
    \/ \E c \in Clients : ImageryBodySettles(c, SomeSolarReplies)
    \/ \E c \in Clients : Close(c)

SpecConc == Init /\ [][NextConc]_vars

\* The tiered endpoints alone, under the bodies that are no JSON object.
NextOdd ==
    \/ \E c \in Clients : PostBuildingInsights(c, FewCoordinateInputs)
    \/ \E c \in Clients : BuildingInsightsFetchSettles(c, OddSolarReplies)
    \/ \E c \in Clients : BuildingInsightsBodySettles(c, OddSolarReplies)
    \/ \E c \in Clients : PostImagery(c, FewCoordinateInputs)
    \/ \E c \in Clients : ImageryFetchSettles(c, OddSolarReplies)
    \/ \E c \in Clients : ImageryBodySettles(c, OddSolarReplies)
    \/ \E c \in Clients : Close(c)

SpecOdd == Init /\ [][NextOdd]_vars

\* The raster decoder as a function of the layer and the raster: a request
\* for a layer has read a raster, any raster up to the bounds, and the
\* handler goes through the calls of sharp from there.
Buffered(input, tile) ==
    ProcessGeotiffBuffer(
        ProcessGeotiffResponse(ProcessGeotiffStart(input),
                               ResponseHead(200, Str(<<"image/tiff">>))),
        Reply(200, ImageBody(Str(<<"image/tiff">>), tile)))

InitRaster ==
    /\ env \in Environments
    /\ \E c \in Clients, input \in LayerInputs, tile \in AllTiles \cup {NoImage} :
         /\ ~Falsy(input.url)
         /\ reqs = [d \in Clients |-> IF d = c THEN Buffered(input, tile) ELSE Idle]

NextRaster ==
    \/ \E c \in Clients : ProcessGeotiffMetadataSettles(c)
    \/ \E c \in Clients : ProcessGeotiffRgbSettles(c)
    \/ \E c \in Clients : ProcessGeotiffRawSettles(c)

SpecRaster == InitRaster /\ [][NextRaster]_vars

\* ------------------------------------------------------------ properties
\* Vocabulary of the properties, stated apart from the handlers.
Tiered(r) == r.ep \in {"insights", "imagery"}

\* The quality a Solar API URL asks for: the piece after "&requiredQuality=".
RequestedQuality(url) ==
    url[(CHOOSE i \in DOMAIN url : url[i] = "&requiredQuality=") + 1]

\* The qualities request r has asked the upstream for, in order.
Qualities(r) == [i \in DOMAIN r.sent |-> RequestedQuality(r.sent[i])]

NotFoundReply == Reply(404, JsonBody(ErrorBody(Str(NotFoundText))))
QuotaReply == Reply(429, JsonBody(ErrorBody(Str(QuotaText))))

\* A success status with a body that parses as JSON.
Succeeded(o) == o.kind = "response" /\ o.status \in 200..299 /\ o.body.json

\* A coordinate as the data model wants it.
ValidCoordinate(input) ==
    /\ input.lat.t = "number" /\ input.lat.v \in -90..90
    /\ input.lng.t = "number" /\ input.lng.v \in -180..180

\* An input the client left out (absent or empty).
Missing(v) == v = Undefined \/ v = Str(<<>>)

\* The required input of request r is missing.
RequiredInputMissing(r) ==
    CASE r.ep = "geocode" -> Missing(r.input.address)
      [] r.ep \in {"insights", "imagery"} -> Missing(r.input.lat) \/ Missing(r.input.lng)
      [] r.ep \in {"proxy-image", "process-geotiff", "convert-image"} -> Missing(r.input.url)
      [] OTHER -> FALSE

\* C1: in both tiered endpoints, when HIGH answers with a failure status whose
\* error message does not say "not found" (quota exceeded), the request ends
\* there: it is answered and no MEDIUM or BASE request was issued.
C1_HighErrorAborts ==
    \A c \in Clients :
        LET r == reqs[c] IN
        (Tiered(r) /\ Len(r.log) >= 1 /\ r.log[1] = QuotaReply)
            => (r.pc = "done" /\ Len(r.sent) = 1)

\* C2: in the insights endpoint, when HIGH, MEDIUM and BASE all answer "not
\* found", the failure response carries exactly the message "No solar data
\* available for this location".
C2_AllNotFoundIsNoData ==
    \A c \in Clients :
        LET r == reqs[c] IN
        (r.ep = "insights" /\ r.log = <<NotFoundReply, NotFoundReply, NotFoundReply>>)
            => r.resp = <<Response(500, [success |-> FALSE,
                            error |-> <<"No solar data available for this location">>])>>

\* C3: first success wins.  In both tiered endpoints, when the i-th exchange of
\* a request succeeds (success status, JSON body), the request is answered
\* with success, the quality of the i-th tier of HIGH, MEDIUM, BASE and that
\* payload, and no later tier is requested; for HIGH, no MEDIUM or BASE
\* request is issued at all.
C3_FirstSuccessWins ==
    \A c \in Clients :
        LET r == reqs[c] IN
        \A i \in DOMAIN r.log :
            (Tiered(r) /\ Succeeded(r.log[i]))
                => /\ r.pc = "done"
                   /\ Len(r.sent) = i
                   /\ Qualities(r)[i] = <<"HIGH", "MEDIUM", "BASE">>[i]
                   /\ Len(r.resp) = 1
                   /\ r.resp[1].status = 200
                   /\ r.resp[1].body.success = TRUE
                   /\ r.resp[1].body.quality = <<"HIGH", "MEDIUM", "BASE">>[i]
                   /\ r.resp[1].body.data = r.log[i].body.value

\* C3 witness: an insights request answered from a successful HIGH exchange.
C3_Witness ==
    \E c \in Clients :
        /\ reqs[c].ep = "insights" /\ reqs[c].pc = "done"
        /\ reqs[c].log = <<Reply(200, JsonBody(Payload("p1")))>>

\* C4: in both tiered endpoints, when HIGH and MEDIUM answer "not found" and
\* BASE succeeds, the response is a success of quality BASE with the BASE
\* payload, after exactly the requests HIGH, MEDIUM, BASE in that order.
C4_BaseAfterTwoNotFound ==
    \A c \in Clients :
        LET r == reqs[c] IN
        (Tiered(r) /\ Len(r.log) = 3 /\ r.log[1] = NotFoundReply
            /\ r.log[2] = NotFoundReply /\ Succeeded(r.log[3]))
            => /\ Qualities(r) = <<"HIGH", "MEDIUM", "BASE">>
               /\ r.resp = <<Response(200,
                     IF r.ep = "insights"
                     THEN [success |-> TRUE, quality |-> "BASE",
                           qualityInfo |-> "0.25m/pixel satellite (experimental)",
                           data |-> r.log[3].body.value]
                     ELSE [success |-> TRUE, quality |-> "BASE",
                           data |-> r.log[3].body.value])>>

\* C4 witness: an imagery request answered from BASE after two "not found".
C4_Witness ==
    \E c \in Clients :
        /\ reqs[c].ep = "imagery" /\ reqs[c].pc = "done"
        /\ reqs[c].log = <<NotFoundReply, NotFoundReply, Reply(200, JsonBody(Payload("p1")))>>

\* C5: the imagery endpoint never answers a request that passed validation
\* with an error: whatever the tiers come to, the response is a success with
\* a data payload or the sentinel {success: false, data: null}, never a
\* status-500 response with an error field.
C5_ImageryNeverErrors ==
    \A c \in Clients :
        LET r == reqs[c] IN
        (r.ep = "imagery" /\ Len(r.sent) >= 1)
            => /\ r.pc = "done" => Len(r.resp) = 1
               /\ \A i \in DOMAIN r.resp :
                    /\ r.resp[i].status = 200
                    /\ "error" \notin DOMAIN r.resp[i].body
                    /\ \/ /\ r.resp[i].body.success = TRUE
                          /\ r.resp[i].body.data = r.log[Len(r.log)].body.value
                       \/ r.resp[i].body = [success |-> FALSE, data |-> Null]

\* C5 witness: an imagery request whose three tiers all failed (a rejection,
\* a quota error, an error whose message is no text) and that was answered.
C5_Witness ==
    \E c \in Clients :
        /\ reqs[c].ep = "imagery" /\ reqs[c].pc = "done"
        /\ Len(reqs[c].log) = 3
        /\ reqs[c].log[1].kind = "reject"
        /\ reqs[c].log[2] = QuotaReply
        /\ reqs[c].log[3] = Reply(400, JsonBody(ErrorBody(Num(5))))

\* Text that holds the API key the server was started with.
HoldsKey(text) ==
    GOOGLE_API_KEY.t = "string"
        /\ \E i \in DOMAIN GOOGLE_API_KEY.v : Includes(text, GOOGLE_API_KEY.v[i])

\* C6: no response sent to a client holds the Google API key, in the error
\* text of its body or in a header.
C6_NoKeyInResponse ==
    \A c \in Clients :
        /\ \A i \in DOMAIN reqs[c].resp :
             "error" \in DOMAIN reqs[c].resp[i].body => ~HoldsKey(reqs[c].resp[i].body.error)
        /\ \A i \in DOMAIN reqs[c].headers :
             reqs[c].headers[i].value.t = "string" => ~HoldsKey(reqs[c].headers[i].value.v)

\* C7: an RGB request on a raster that decodes to fewer than three channels
\* never ends in a success response.
C7_RgbNeedsThreeChannels ==
    \A c \in Clients :
        LET r == reqs[c] IN
        (r.ep = "process-geotiff" /\ r.input.layer = Str(<<"rgb">>) /\ Len(r.log) = 1
            /\ r.log[1].kind = "response" /\ r.log[1].body.tile.image
            /\ r.log[1].body.tile.channels < 3)
            => \A i \in DOMAIN r.resp :
                 r.resp[i].status # 200 /\ "success" \notin DOMAIN r.resp[i].body

\* C8: a coordinate within the data model's range, latitude 0 and longitude 0
\* included, is accepted by the insights and imagery endpoints: no 400
\* response, and the HIGH request is issued.
C8_ValidCoordinateAccepted ==
    \A c \in Clients :
        LET r == reqs[c] IN
        (Tiered(r) /\ r.pc # "idle" /\ ValidCoordinate(r.input))
            => /\ Len(r.sent) >= 1
               /\ \A i \in DOMAIN r.resp : r.resp[i].status # 400

\* C9: in every endpoint, a request whose required input is missing is
\* answered with status 400 and no upstream request is issued for it.
C9_ValidationBeforeNetwork ==
    \A c \in Clients :
        LET r == reqs[c] IN
        (r.pc # "idle" /\ RequiredInputMissing(r))
            => /\ r.pc = "done"
               /\ r.sent = <<>>
               /\ Len(r.resp) = 1
               /\ r.resp[1].status = 400

\* C9 witness: a GeoTIFF request without url, answered.
C9_Witness ==
    \E c \in Clients :
        /\ reqs[c].ep = "process-geotiff" /\ reqs[c].pc = "done"
        /\ reqs[c].input.url = Undefined /\ reqs[c].input.layer = Str(<<"rgb">>)

\* The values of a sequence at the positions of a set, summed.
RECURSIVE SumAt(_, _)
SumAt(xs, I) ==
    IF I = {} THEN 0
    ELSE LET i == CHOOSE j \in I : TRUE IN xs[i] + SumAt(xs, I \ {i})

\* C10: the statistics of a single-band response are those of the returned
\* values other than 0 and 255: min and max are the least and greatest of
\* them and mean is their sum divided by their number; when there are none,
\* min = 0, max = 255 and mean = 0, and the request still succeeds.
C10_StatisticsOverValidValues ==
    \A c \in Clients :
        LET r == reqs[c] IN
        \A k \in DOMAIN r.resp :
            LET b == r.resp[k].body IN
            (r.ep = "process-geotiff" /\ "type" \in DOMAIN b /\ b.type = "single-band")
                => LET I == {i \in DOMAIN b.data : b.data[i] \notin {0, 255}} IN
                   /\ r.resp[k].status = 200 /\ b.success = TRUE
                   /\ I = {} => b.stats = [min |-> 0, max |-> 255,
                                           mean |-> [num |-> 0, den |-> 1]]
                   /\ I # {} =>
                        /\ \E i \in I : b.stats.min = b.data[i]
                        /\ \A i \in I : b.stats.min <= b.data[i]
                        /\ \E i \in I : b.stats.max = b.data[i]
                        /\ \A i \in I : b.stats.max >= b.data[i]
                        /\ b.stats.mean.den > 0
                        /\ b.stats.mean.num * Cardinality(I) = b.stats.mean.den * SumAt(b.data, I)
                   /\ b.data = <<0, 10, 20, 255, 30>> =>
                        b.stats = [min |-> 10, max |-> 30, mean |-> [num |-> 20, den |-> 1]]
                   /\ b.data = <<0, 255, 0, 255>> =>
                        b.stats = [min |-> 0, max |-> 255, mean |-> [num |-> 0, den |-> 1]]

\* C10 witness: a single-band response for the values 0, 10, 20, 255, 30.
C10_Witness ==
    \E c \in Clients :
        /\ reqs[c].ep = "process-geotiff" /\ reqs[c].pc = "done"
        /\ "type" \in DOMAIN reqs[c].resp[1].body
        /\ reqs[c].resp[1].body.type = "single-band"
        /\ reqs[c].resp[1].body.data = <<0, 10, 20, 255, 30>>

\* The buffer the decode of request r was given by sharp: the rgb branch (and
\* its fall-through) reads the image with the alpha option set.
DecodedBuffer(r) == RawBuffer(r.log[1].body.tile, r.input.layer = Str(<<"rgb">>))

\* C11: RGB decode.  For a raw buffer of N pixels with c >= 3 channels (c = 4
\* in particular) the returned red, green and blue arrays each have length N,
\* and red[i], green[i], blue[i] are the raw bytes at offsets i*c, i*c + 1,
\* i*c + 2, for every pixel i in row-major order.
C11_RgbDecode ==
    \A c \in Clients :
        LET r == reqs[c] IN
        \A k \in DOMAIN r.resp :
            LET b == r.resp[k].body IN
            (r.ep = "process-geotiff" /\ "type" \in DOMAIN b /\ b.type = "rgb")
                => LET raw == DecodedBuffer(r)
                       ch == raw.info.channels
                       N == raw.info.width * raw.info.height
                   IN /\ ch >= 3
                      /\ Len(raw.data) = N * ch
                      /\ b.width = raw.info.width /\ b.height = raw.info.height
                      /\ Len(b.data.red) = N
                      /\ Len(b.data.green) = N
                      /\ Len(b.data.blue) = N
                      /\ \A i \in 0..(N - 1) :
                           /\ b.data.red[i + 1] = raw.data[i * ch + 1]
                           /\ b.data.green[i + 1] = raw.data[i * ch + 2]
                           /\ b.data.blue[i + 1] = raw.data[i * ch + 3]
                      /\ r.log[1].body.tile.channels = 4 =>
                           \A i \in 0..(N - 1) :
                               b.data.red[i + 1] = r.log[1].body.tile.data[i * 4 + 1]

\* C11 witness: an rgb response for an RGBA raster of two pixels.
C11_Witness ==
    \E c \in Clients :
        /\ reqs[c].ep = "process-geotiff" /\ reqs[c].pc = "done"
        /\ Len(reqs[c].log) = 1 /\ reqs[c].log[1].kind = "response"
        /\ reqs[c].log[1].body.tile.data = <<7, 255, 7, 255, 255, 7, 7, 7>>
        /\ reqs[c].log[1].body.tile.channels = 4
        /\ "type" \in DOMAIN reqs[c].resp[1].body
        /\ reqs[c].resp[1].body.type = "rgb"
        /\ reqs[c].resp[1].body.data =
             [red |-> <<7, 255>>, green |-> <<255, 7>>, blue |-> <<7, 7>>]

\* A single-band response of request r.
IsSingleBand(r, res) ==
    r.ep = "process-geotiff" /\ "type" \in DOMAIN res.body /\ res.body.type = "single-band"

\* The positions (from 1) of the decoded buffer the single-band extraction
\* reads: one per pixel for tiff, every byte otherwise.
ExtractionPositions(format, L, ch) ==
    {i \in 1..L : format = "tiff" => (i - 1) % ch = 0}

\* The k-th position of a set of positions, in increasing order.
NthPosition(P, k) == CHOOSE i \in P : Cardinality({j \in P : j < i}) = k - 1

\* C12: the data of a single-band response is the unfiltered sequence of
\* extracted values: one value per extraction position, in order, with the
\* sentinels 0 and 255 kept in place; the statistics filter changes only stats.
C12_DataUnfiltered ==
    \A c \in Clients :
        LET r == reqs[c] IN
        \A k \in DOMAIN r.resp :
            IsSingleBand(r, r.resp[k])
                => LET raw == DecodedBuffer(r)
                       b == r.resp[k].body
                       P == ExtractionPositions(r.log[1].body.tile.format,
                                                Len(raw.data), raw.info.channels)
                   IN /\ Len(b.data) = Cardinality(P)
                      /\ \A n \in 1..Cardinality(P) :
                           b.data[n] = raw.data[NthPosition(P, n)]
                      /\ Cardinality({n \in DOMAIN b.data : b.data[n] \in {0, 255}})
                           = Cardinality({i \in P : raw.data[i] \in {0, 255}})

\* C12 witness: a single-band response whose data keeps a 0 and a 255.
C12_Witness ==
    \E c \in Clients :
        /\ reqs[c].pc = "done" /\ Len(reqs[c].resp) = 1
        /\ IsSingleBand(reqs[c], reqs[c].resp[1])
        /\ reqs[c].resp[1].body.data = <<0, 255, 10>>
        /\ reqs[c].resp[1].body.stats = [min |-> 10, max |-> 10, mean |-> [num |-> 10, den |-> 1]]

\* C18: single-band extraction from a raw buffer of length L with c channels:
\* for a tiff the values are the bytes at offsets 0, c, 2c, ... (ceil(L/c)
\* values); for any other format they are all L bytes in order.
C18_SingleBandExtraction ==
    \A c \in Clients :
        LET r == reqs[c] IN
        \A k \in DOMAIN r.resp :
            IsSingleBand(r, r.resp[k])
                => LET raw == DecodedBuffer(r)
                       b == r.resp[k].body
                       L == Len(raw.data)
                       ch == raw.info.channels
                   IN IF r.log[1].body.tile.format = "tiff"
                      THEN /\ Len(b.data) = (L + ch - 1) \div ch
                           /\ \A n \in 1..Len(b.data) : b.data[n] = raw.data[(n - 1) * ch + 1]
                      ELSE b.data = raw.data

\* C18 witness: a tiff of two channels and two pixels, read at stride two.
C18_Witness ==
    \E c \in Clients :
        /\ reqs[c].pc = "done" /\ Len(reqs[c].resp) = 1 /\ Len(reqs[c].log) = 1
        /\ IsSingleBand(reqs[c], reqs[c].resp[1])
        /\ reqs[c].log[1].body.tile.format = "tiff"
        /\ reqs[c].log[1].body.tile.data = <<7, 255, 255, 7>>
        /\ reqs[c].log[1].body.tile.channels = 2
        /\ reqs[c].resp[1].body.data = <<7, 255>>

\* The answer of the geocoding provider to request r, when it is a JSON object.
ProviderAnswered(r) ==
    /\ r.ep = "geocode" /\ Len(r.log) = 1
    /\ r.log[1].kind = "response" /\ r.log[1].body.json
    /\ r.log[1].body.value.t = "object"

\* C13: address resolution.  When the provider answers with a status other
\* than OK, or with zero results, the geocode response is a failure whose
\* error text contains the provider's status string, and it carries no lat or
\* lng; a coordinate is returned only when the status is OK and there is at
\* least one result, and it is the first result's.
C13_GeocodeFailureNamesStatus ==
    \A c \in Clients :
        LET r == reqs[c] IN
        /\ ProviderAnswered(r) =>
             LET data == r.log[1].body.value IN
             (\/ data.status # Str(<<"OK">>)
              \/ (data.results.t = "array" /\ Len(data.results.v) = 0))
                => /\ Len(r.resp) = 1
                   /\ r.resp[1].body.success = FALSE
                   /\ \A i \in DOMAIN data.status.v :
                        Includes(r.resp[1].body.error, data.status.v[i])
                   /\ "lat" \notin DOMAIN r.resp[1].body
                   /\ "lng" \notin DOMAIN r.resp[1].body
        /\ \A k \in DOMAIN r.resp :
             (r.ep = "geocode" /\ ("lat" \in DOMAIN r.resp[k].body \/ "lng" \in DOMAIN r.resp[k].body))
                => /\ ProviderAnswered(r)
                   /\ r.log[1].body.value.status = Str(<<"OK">>)
                   /\ r.log[1].body.value.results.t = "array"
                   /\ Len(r.log[1].body.value.results.v) >= 1
                   /\ r.resp[k].body.lat = r.log[1].body.value.results.v[1].lat
                   /\ r.resp[k].body.lng = r.log[1].body.value.results.v[1].lng

\* C13 witness: a geocode request answered after the provider said
\* ZERO_RESULTS.
C13_Witness ==
    \E c \in Clients :
        /\ reqs[c].pc = "done" /\ ProviderAnswered(reqs[c])
        /\ reqs[c].log[1].body.value.status = Str(<<"ZERO_RESULTS">>)
        /\ reqs[c].resp = <<Response(400, [success |-> FALSE,
                              error |-> <<"Geocoding failed: ", "ZERO_RESULTS">>])>>

\* C14: within one request to a tiered endpoint the upstream requests are
\* issued one after the other in the order HIGH, MEDIUM, BASE: at most one
\* call of the request is outstanding at any moment, each tier is requested
\* once at most and only after the call before it has completed, so at most
\* three calls are made, however the requests of other clients interleave.
C14_TiersSequential ==
    \A c \in Clients :
        LET r == reqs[c] IN
        Tiered(r)
            => /\ Len(r.sent) <= 3
               /\ Qualities(r) = SubSeq(<<"HIGH", "MEDIUM", "BASE">>, 1, Len(r.sent))
               /\ Len(r.sent) - Len(r.log) = (IF r.pc \in {"fetch", "body"} THEN 1 ELSE 0)
               /\ \A i \in DOMAIN r.sent, j \in DOMAIN r.sent :
                    i # j => r.sent[i] # r.sent[j]

\* C14 witness: two requests in progress at once, one reading the body of
\* BASE and the other waiting for MEDIUM.
C14_Witness ==
    \E c \in Clients, d \in Clients :
        /\ c # d
        /\ reqs[c].ep = "insights" /\ reqs[c].pc = "body" /\ Len(reqs[c].sent) = 3
        /\ reqs[d].ep = "imagery" /\ reqs[d].pc = "fetch" /\ Len(reqs[d].sent) = 2

\* C15: every insights success response reports as quality the tier whose
\* request succeeded, and its qualityInfo is decided by that tier alone: HIGH
\* "0.1m/pixel aerial", MEDIUM "0.25m/pixel aerial", BASE "0.25m/pixel
\* satellite (experimental)", whatever the coordinates and the payload.
C15_QualityInfoByTier ==
    \A c \in Clients :
        LET r == reqs[c] IN
        \A k \in DOMAIN r.resp :
            (r.ep = "insights" /\ r.resp[k].status = 200)
                => LET b == r.resp[k].body
                       n == Len(r.log)
                   IN /\ Succeeded(r.log[n])
                      /\ Len(r.sent) = n
                      /\ b.success = TRUE
                      /\ b.quality = RequestedQuality(r.sent[n])
                      /\ b.quality = <<"HIGH", "MEDIUM", "BASE">>[n]
                      /\ b.qualityInfo =
                           CASE b.quality = "HIGH" -> "0.1m/pixel aerial"
                             [] b.quality = "MEDIUM" -> "0.25m/pixel aerial"
                             [] b.quality = "BASE" -> "0.25m/pixel satellite (experimental)"

\* C15 witness: an insights request answered from MEDIUM.
C15_Witness ==
    \E c \in Clients :
        /\ reqs[c].ep = "insights" /\ reqs[c].pc = "done" /\ Len(reqs[c].log) = 2
        /\ reqs[c].input.lat = Num(45)
        /\ reqs[c].resp = <<Response(200, [success |-> TRUE, quality |-> "MEDIUM",
                              qualityInfo |-> "0.25m/pixel aerial", data |-> Payload("p1")])>>

\* C16: in both tiered endpoints the request for a tier carries the
\* expanded-coverage experiment flag exactly when the tier is BASE, and every
\* request names the tier being tried, and no other, as its required quality.
C16_ExpandedCoverageOnlyBase ==
    \A c \in Clients :
        LET r == reqs[c] IN
        \A i \in DOMAIN r.sent :
            Tiered(r)
                => LET url == r.sent[i]
                       tier == <<"HIGH", "MEDIUM", "BASE">>[i]
                   IN /\ (Includes(url, "&experiments=") /\ Includes(url, "EXPANDED_COVERAGE"))
                            <=> tier = "BASE"
                      /\ Includes(url, "&experiments=") <=> Includes(url, "EXPANDED_COVERAGE")
                      /\ Cardinality({j \in DOMAIN url : url[j] = "&requiredQuality="}) = 1
                      /\ RequestedQuality(url) = tier
                      /\ \A q \in {"HIGH", "MEDIUM", "BASE"} : Includes(url, q) <=> q = tier

\* C16 witness: an imagery request that reached BASE.
C16_Witness ==
    \E c \in Clients :
        /\ reqs[c].ep = "imagery" /\ Len(reqs[c].sent) = 3
        /\ Includes(reqs[c].sent[3], "EXPANDED_COVERAGE")
        /\ ~Includes(reqs[c].sent[2], "EXPANDED_COVERAGE")

\* A response that reports success to the client.
SuccessResponse(p) == "success" \in DOMAIN p.body /\ p.body.success = TRUE

\* An upstream response whose body is no JSON.
Unparseable(o) == o.kind = "response" /\ ~o.body.json

\* C17: in both tiered endpoints a tier whose body cannot be parsed as JSON
\* is a failure for that tier, whatever its status: HIGH and MEDIUM go on to
\* the next tier, BASE ends the request without success (insights with the
\* invalid-JSON error and the start of the body, also for a failure status,
\* since the body is parsed before the status is looked at), and a success
\* response is only ever sent for a tier whose body parsed.
C17_UnparseableIsFailure ==
    \A c \in Clients :
        LET r == reqs[c] IN
        Tiered(r)
            => /\ \A i \in DOMAIN r.log :
                    Unparseable(r.log[i])
                        => /\ i < 3 => Len(r.sent) > i
                           /\ i = 3 => /\ Len(r.resp) = 1
                                       /\ ~SuccessResponse(r.resp[1])
                                       /\ r.ep = "insights"
                                            => r.resp[1] = Response(500,
                                                 [success |-> FALSE,
                                                  error |-> <<"Invalid JSON response: ">>
                                                            \o r.log[i].body.chars])
               /\ \A k \in DOMAIN r.resp :
                    SuccessResponse(r.resp[k])
                        => /\ ~Unparseable(r.log[Len(r.log)])
                           /\ r.resp[k].body.quality = <<"HIGH", "MEDIUM", "BASE">>[Len(r.log)]

\* C17 witness: an insights request that met a 200 with an HTML body at HIGH
\* and again at BASE, and was answered with the invalid-JSON error.
C17_Witness ==
    \E c \in Clients :
        /\ reqs[c].ep = "insights" /\ reqs[c].pc = "done" /\ Len(reqs[c].log) = 3
        /\ reqs[c].log[1] = Reply(200, TextBody(HtmlChars))
        /\ reqs[c].log[3] = Reply(200, TextBody(HtmlChars))
        /\ Len(reqs[c].resp) = 1 /\ reqs[c].resp[1].status = 500

\* C19: in the insights endpoint a failure at HIGH or MEDIUM of any kind sends
\* no response and makes the handler request the next tier; a failure
\* response is only sent once BASE has been answered, so a request that has
\* been answered went through validation only, or succeeded at its last tier,
\* or has tried BASE; and the error of the statement after the loop is never
\* the one reported.
C19_FailureOnlyFromBase ==
    \A c \in Clients :
        LET r == reqs[c] IN
        r.ep = "insights"
            => /\ \A i \in DOMAIN r.log :
                    (i < 3 /\ ~Succeeded(r.log[i])) => Len(r.sent) > i
               /\ \A k \in DOMAIN r.resp :
                    /\ r.resp[k].status = 500
                         => /\ Len(r.log) = 3 /\ Qualities(r) = <<"HIGH", "MEDIUM", "BASE">>
                            /\ ~Succeeded(r.log[3])
                            /\ r.resp[k].body.error # NoSolarData
                    /\ r.resp[k].status = 400 => r.sent = <<>>
                    /\ r.resp[k].status = 200 => Succeeded(r.log[Len(r.log)])
                    /\ r.resp[k].status \in {200, 400, 500}

\* C19 witness: a quota error at HIGH and a transport error at MEDIUM were
\* passed over, and the failure of BASE (a message that is no text) was
\* reported.
C19_Witness ==
    \E c \in Clients :
        /\ reqs[c].ep = "insights" /\ reqs[c].pc = "done" /\ Len(reqs[c].log) = 3
        /\ reqs[c].log[1] = QuotaReply
        /\ reqs[c].log[2] = Reject(<<"Premature close">>)
        /\ reqs[c].log[3] = Reply(400, JsonBody(ErrorBody(Num(5))))
        /\ reqs[c].resp = <<Response(500, [success |-> FALSE, error |-> NoIncludesText])>>

\* The n-th upstream call of the tiered request on connection c is
\* outstanding at the await `pc`.
CallOutstanding(c, n, pc) ==
    Tiered(reqs[c]) /\ Len(reqs[c].sent) = n /\ reqs[c].pc = pc

\* Every upstream call of the requests on connection c returns or fails in
\* the end, and so does the read of every body: no call stays outstanding
\* for ever.
CallsSettle(c) ==
    \A n \in 1..Len(qualityLevels) : \A pc \in {"fetch", "body"} :
        []<>(~CallOutstanding(c, n, pc))

\* C20: every request to the insights or imagery endpoint is answered exactly
\* once.  At every moment at most one response has been sent for it and at
\* most three upstream calls have been made, and the handler has finished
\* exactly when the one response is there; and, provided every upstream call
\* of the connection eventually returns or fails (nothing in the server makes
\* it: fetch is called without a timeout), a handler waiting for the upstream
\* leads to the request being answered, with one response after at most
\* three calls.
C20_AnsweredExactlyOnce ==
    /\ [](\A c \in Clients :
            LET r == reqs[c] IN
            Tiered(r) => /\ Len(r.resp) <= 1
                         /\ Len(r.sent) <= 3
                         /\ r.pc \in {"fetch", "body", "done"}
                         /\ r.pc = "done" <=> Len(r.resp) = 1)
    /\ \A c \in Clients :
         CallsSettle(c)
            => ((Tiered(reqs[c]) /\ reqs[c].pc \in {"fetch", "body"})
                   ~> (Tiered(reqs[c]) /\ reqs[c].pc = "done"
                       /\ Len(reqs[c].resp) = 1 /\ Len(reqs[c].sent) \in 1..3))

\* C20 witness: an imagery request answered once, after three upstream calls
\* that each failed in another way.
C20_Witness ==
    \E c \in Clients :
        /\ reqs[c].ep = "imagery" /\ reqs[c].pc = "done"
        /\ Len(reqs[c].sent) = 3 /\ Len(reqs[c].log) = 3 /\ Len(reqs[c].resp) = 1
        /\ reqs[c].log[1] = NotFoundReply
        /\ reqs[c].log[2] = Reject(FetchErrorMessage(reqs[c].sent[2]))
        /\ reqs[c].log[3] = Reject(<<"Premature close">>)

====
